---- MODULE Spec2Model ----
(***************************************************************************)
(* Model of the Aura backend API: account registration and login           *)
(* (backend/app/api/auth.py), the bearer-token dependency get_current_user, *)
(* and the owner-checked conversation and message endpoints                *)
(* (backend/app/api/conversation.py).  The store is the Prisma database,   *)
(* modelled as three tables.  Every endpoint is one action; register_user  *)
(* is split at its two awaits (the lookup and the insert), since requests  *)
(* are served concurrently on one event loop and interleave there.         *)
(***************************************************************************)
EXTENDS Integers, Sequences, FiniteSets, TLC

(***************************************************************************)
(* Bounds of the model.                                                    *)
(***************************************************************************)
MaxInflight == 2      \* register requests between their lookup and insert
MaxTime == 60         \* the clock, in minutes, stops here
MaxConvs == 2         \* conversations ever created
MaxMsgs == 2          \* messages ever created

(***************************************************************************)
(* Configuration (core/config.py).                                         *)
(***************************************************************************)
ACCESS_TOKEN_EXPIRE_MINUTES == 30
ALLOWED_DOMAIN == <<"@", "iitbhilai.ac.in">>

(***************************************************************************)
(* Request data.  An email is the sequence of its parts, a password the    *)
(* sequence of its characters, so that the suffix test and the character   *)
(* tests of the validators are computed as the code computes them.         *)
(***************************************************************************)
TEST_EMAIL == <<"test", "@", "iitbhilai.ac.in">>
STUDENT_EMAIL == <<"student", "@", "iitbhilai.ac.in">>
(***************************************************************************)
(* Values of settings.ALLOWED_DOMAINS: the default, and a deployment that  *)
(* sets ALLOWED_DOMAINS=@iitbhilai.ac.in,@gmail.com.                       *)
(***************************************************************************)
GMAIL_DOMAIN == <<"@", "gmail.com">>

ALLOWED_DOMAINS_settings ==
    {{ALLOWED_DOMAIN}, {ALLOWED_DOMAIN, GMAIL_DOMAIN}}

GMAIL_EMAIL == <<"test", "@", "gmail.com">>

TEST_PASSWORD == <<"T","e","s","t","P","a","s","s","1","2","3">>
OTHER_PASSWORD == <<"N","e","w","P","a","s","s","4","5","6">>
WEAK_PASSWORD == <<"w","e","a","k">>
WRONG_PASSWORD == <<"w","r","o","n","g","p","a","s","s","w","o","r","d">>
NODIGIT_PASSWORD == <<"P","a","s","s","w","o","r","d">>
NOUPPER_PASSWORD == <<"p","a","s","s","w","o","r","d","1">>

Digits == {"0","1","2","3","4","5","6","7","8","9"}
Uppers == {"A","B","C","D","E","F","G","H","I","J","K","L","M",
           "N","O","P","Q","R","S","T","U","V","W","X","Y","Z"}

NoEmail == <<>>
NoBody == <<>>

(***************************************************************************)
(* str.endswith                                                            *)
(***************************************************************************)
EndsWith(v, suffix) ==
    /\ Len(v) >= Len(suffix)
    /\ SubSeq(v, Len(v) - Len(suffix) + 1, Len(v)) = suffix

(***************************************************************************)
(* The validators of UserCreate (db/schemas.py).                           *)
(***************************************************************************)
validate_email_domain(v) == EndsWith(v, ALLOWED_DOMAIN)

passwords_match(v, password) == v = password

validate_password_strength_no_uppercase(v) ==
    /\ Len(v) >= 8
    /\ \E i \in 1..Len(v) : v[i] \in Digits

validate_password_strength(v) ==
    /\ Len(v) >= 8
    /\ \E i \in 1..Len(v) : v[i] \in Digits
    /\ \E i \in 1..Len(v) : v[i] \in Uppers

UserCreate_no_confirmation(req) ==
    /\ validate_email_domain(req.email)
    /\ validate_password_strength(req.password)

UserCreate(req) ==
    /\ validate_email_domain(req.email)
    /\ validate_password_strength(req.password)
    /\ passwords_match(req.confirmPassword, req.password)

(***************************************************************************)
(* core/security.py: salted one-way hash and its verification.             *)
(***************************************************************************)
Salts == {1}

get_password_hash(password, salt) == <<"bcrypt", salt, password>>

verify_password(plain, hashed) == get_password_hash(plain, hashed[2]) = hashed

(***************************************************************************)
(* core/security.py: tokens.  A token is what the signed structure         *)
(* carries: whether it parses, whether its signature is the server's, its  *)
(* subject and its expiry instant.                                         *)
(***************************************************************************)
create_access_token(sub, expires_delta, t) ==
    [kind |-> "jwt", sig |-> "good", sub |-> sub, exp |-> t + expires_delta]

verify_token(token, t) ==
    IF /\ token.kind = "jwt"
       /\ token.sig = "good"
       /\ t < token.exp
       /\ token.sub # NoEmail
    THEN token.sub
    ELSE NoEmail

NoHeader == [kind |-> "none", sig |-> "bad", sub |-> NoEmail, exp |-> 0]
InvalidToken == [kind |-> "malformed", sig |-> "bad", sub |-> NoEmail, exp |-> 0]

(***************************************************************************)
(* users, conversations, messages: the tables of the store.                *)
(* now: the server clock, in minutes; it moves one token lifetime a step,  *)
(* so that a token is seen before, at and after its expiry.                *)
(* inflight: the register requests between their lookup and their insert.  *)
(* last: the request served by the latest step and its response.           *)
(***************************************************************************)
VARIABLES users, conversations, messages, now, inflight, last

vars == <<users, conversations, messages, now, inflight, last>>


(***************************************************************************)
(* The tokens a client can present at time t.  Besides no header, garbage  *)
(* and a token signed with another key, these are the tokens the server's  *)
(* key has signed up to now: login_user signs one for an account that      *)
(* logs in, and create_access_token signs any claims it is given (as       *)
(* week2_demo.py calls it, for an email that has no account, and a caller  *)
(* may leave "sub" out).  Tokens are signed at the instants of the clock.  *)
(***************************************************************************)
ClockStep == ACCESS_TOKEN_EXPIRE_MINUTES

Instants(t) == {i \in 0..t : i % ClockStep = 0}

ForgedToken ==
    [kind |-> "jwt", sig |-> "bad", sub |-> TEST_EMAIL,
     exp |-> MaxTime + 2 * ACCESS_TOKEN_EXPIRE_MINUTES]

SignedTokens(t) ==
    {create_access_token(sub, ACCESS_TOKEN_EXPIRE_MINUTES, i) :
        sub \in {TEST_EMAIL, STUDENT_EMAIL, NoEmail}, i \in Instants(t)}

BearerTokens(t) == {InvalidToken, ForgedToken} \cup SignedTokens(t)

(***************************************************************************)
(* Response shapes.                                                        *)
(***************************************************************************)
NoUser ==
    [id |-> 0, email |-> NoEmail, firstName |-> "", lastName |-> "",
     isActive |-> FALSE]

UserResponse_with_hash(u) ==
    [id |-> u.id, email |-> u.email, firstName |-> u.firstName,
     lastName |-> u.lastName, isActive |-> u.isActive,
     hashedPassword |-> u.hashedPassword]

UserResponse(u) ==
    [id |-> u.id, email |-> u.email, firstName |-> u.firstName,
     lastName |-> u.lastName, isActive |-> u.isActive]

Response(status, detail, body) ==
    [status |-> status, detail |-> detail, body |-> body]

(***************************************************************************)
(* Store lookups (Prisma find_unique): the set of matching rows, empty     *)
(* for None.                                                               *)
(***************************************************************************)
find_user_by_email(U, email) == {u \in U : u.email = email}

find_user_by_id(U, id) == {u \in U : u.id = id}

find_conversation(C, id) == {c \in C : c.id = id}

One(S) == CHOOSE x \in S : TRUE

(***************************************************************************)
(* get_current_user (auth.py): the dependency of every protected route.    *)
(* HTTPBearer answers 403 itself when the Authorization header is missing. *)
(***************************************************************************)
credentials_exception ==
    [ok |-> FALSE, status |-> 401, detail |-> "Could not validate credentials",
     user |-> NoUser]

get_current_user_user_not_found(token, U, t) ==
    IF token = NoHeader
    THEN [ok |-> FALSE, status |-> 403, detail |-> "Not authenticated",
          user |-> NoUser]
    ELSE LET email == verify_token(token, t) IN
         IF email = NoEmail
         THEN credentials_exception
         ELSE LET user == find_user_by_email(U, email) IN
              IF user = {}
              THEN [ok |-> FALSE, status |-> 404, detail |-> "User not found",
                    user |-> NoUser]
              ELSE [ok |-> TRUE, status |-> 200, detail |-> "",
                    user |-> UserResponse(One(user))]

get_current_user_optional_header(token, U, t) ==
    LET email == verify_token(token, t)
        user == find_user_by_email(U, email)
    IN IF email = NoEmail \/ user = {}
       THEN credentials_exception
       ELSE [ok |-> TRUE, status |-> 200, detail |-> "",
             user |-> UserResponse(One(user))]

get_current_user_ignores_expiry(token, U, t) ==
    IF token = NoHeader
    THEN [ok |-> FALSE, status |-> 403, detail |-> "Not authenticated",
          user |-> NoUser]
    ELSE LET email == verify_token(token, 0) IN
         IF email = NoEmail
         THEN credentials_exception
         ELSE LET user == find_user_by_email(U, email) IN
              IF user = {}
              THEN credentials_exception
              ELSE [ok |-> TRUE, status |-> 200, detail |-> "",
                    user |-> UserResponse(One(user))]

get_current_user_single_use(token, U, t) ==
    IF token = NoHeader
    THEN [ok |-> FALSE, status |-> 403, detail |-> "Not authenticated",
          user |-> NoUser]
    ELSE LET email == verify_token(token, t) IN
         IF email = NoEmail \/ (last.authed /\ last.tok = token)
         THEN credentials_exception
         ELSE LET user == find_user_by_email(U, email) IN
              IF user = {}
              THEN credentials_exception
              ELSE [ok |-> TRUE, status |-> 200, detail |-> "",
                    user |-> UserResponse(One(user))]

get_current_user(token, U, t) ==
    IF token = NoHeader
    THEN [ok |-> FALSE, status |-> 403, detail |-> "Not authenticated",
          user |-> NoUser]
    ELSE LET email == verify_token(token, t) IN
         IF email = NoEmail
         THEN credentials_exception
         ELSE LET user == find_user_by_email(U, email) IN
              IF user = {}
              THEN credentials_exception
              ELSE [ok |-> TRUE, status |-> 200, detail |-> "",
                    user |-> UserResponse(One(user))]

(***************************************************************************)
(* What a step records of the request it served and of its response.  req  *)
(* is the rest of the request body where there is one: confirmPassword of  *)
(* register, old_password of change-password, the MessageCreate of a       *)
(* message.                                                                *)
(***************************************************************************)
Served(op, token, gate, email, password, cid, resp) ==
    [op |-> op, tok |-> token, authed |-> gate.ok, uid |-> gate.user.id,
     email |-> email, password |-> password, cid |-> cid, req |-> <<>>,
     status |-> resp.status, detail |-> resp.detail, body |-> resp.body]

WithBody(served, req) == [served EXCEPT !.req = req]

NoGate == [ok |-> FALSE, status |-> 0, detail |-> "", user |-> NoUser]

GateResponse(gate) == Response(gate.status, gate.detail, NoBody)

Idle == [pc |-> "idle", email |-> NoEmail, password |-> <<>>,
         confirmPassword |-> <<>>, firstName |-> "", lastName |-> ""]

Init ==
    /\ users = {}
    /\ conversations = {}
    /\ messages = {}
    /\ now = 0
    /\ inflight = [s \in 1..MaxInflight |-> Idle]
    /\ last = Served("start", NoHeader, NoGate, NoEmail, <<>>, 0,
                     Response(0, "", NoBody))

(***************************************************************************)
(* register_user (auth.py).  Validation by UserCreate happens before the   *)
(* handler; the handler looks the email up, then, after the await, hashes  *)
(* and inserts.  User.email is a unique key of the store (find_unique is   *)
(* called on it), so the insert of a second row with the same email        *)
(* raises, and the handler turns every exception of the insert into 500.   *)
(* Requests in flight are interchangeable: a new one takes the first free  *)
(* place.                                                                  *)
(***************************************************************************)
register_lookup(s, req) ==
    /\ inflight[s].pc = "idle"
    /\ \A r \in 1..(s - 1) : inflight[r].pc # "idle"
    /\ IF ~UserCreate(req)
       THEN /\ last' = WithBody(Served("register", NoHeader, NoGate, req.email,
                                       req.password, 0,
                                       Response(422, "validation error", NoBody)),
                                req.confirmPassword)
            /\ UNCHANGED inflight
       ELSE IF find_user_by_email(users, req.email) # {}
       THEN /\ last' = WithBody(Served("register", NoHeader, NoGate, req.email,
                                       req.password, 0,
                                       Response(400, "Email already registered",
                                                NoBody)),
                                req.confirmPassword)
            /\ UNCHANGED inflight
       ELSE /\ inflight' = [inflight EXCEPT ![s] =
                   [pc |-> "create", email |-> req.email,
                    password |-> req.password,
                    confirmPassword |-> req.confirmPassword,
                    firstName |-> req.firstName, lastName |-> req.lastName]]
            /\ last' = WithBody(Served("register_lookup", NoHeader, NoGate,
                                       req.email, req.password, 0,
                                       Response(0, "", NoBody)),
                                req.confirmPassword)
    /\ UNCHANGED <<users, conversations, messages, now>>

NewUserId(U) == Cardinality(U) + 1

db_user_create_unconstrained(U, data) ==
    [raised |-> FALSE,
     users |-> U \cup {[id |-> NewUserId(U), email |-> data.email,
                        hashedPassword |-> data.hashedPassword,
                        firstName |-> data.firstName,
                        lastName |-> data.lastName,
                        isActive |-> TRUE]}]

db_user_create(U, data) ==
    IF find_user_by_email(U, data.email) # {}
    THEN [raised |-> TRUE, users |-> U]
    ELSE [raised |-> FALSE,
          users |-> U \cup {[id |-> NewUserId(U), email |-> data.email,
                             hashedPassword |-> data.hashedPassword,
                             firstName |-> data.firstName,
                             lastName |-> data.lastName,
                             isActive |-> TRUE]}]

register_create(s) ==
    /\ inflight[s].pc = "create"
    /\ \E salt \in Salts :
          LET req == inflight[s]
              hashed_password == get_password_hash(req.password, salt)
              created == db_user_create(users,
                            [email |-> req.email,
                             hashedPassword |-> hashed_password,
                             firstName |-> req.firstName,
                             lastName |-> req.lastName])
          IN /\ users' = created.users
             /\ last' = WithBody(Served("register", NoHeader, NoGate,
                                        req.email, req.password, 0,
                                        IF created.raised
                                        THEN Response(500, "Failed to create user",
                                                      NoBody)
                                        ELSE Response(201,
                                                      "registered successfully",
                                                      NoBody)),
                                 req.confirmPassword)
    /\ inflight' = [inflight EXCEPT ![s] = Idle]
    /\ UNCHANGED <<conversations, messages, now>>

(***************************************************************************)
(* login_user (auth.py).                                                   *)
(***************************************************************************)
Token_minutes(access_token) ==
    [accessToken |-> access_token, tokenType |-> "bearer",
     expiresIn |-> ACCESS_TOKEN_EXPIRE_MINUTES]

Token(access_token) ==
    [accessToken |-> access_token, tokenType |-> "bearer",
     expiresIn |-> ACCESS_TOKEN_EXPIRE_MINUTES * 60]

login_response_user_not_found(U, email, password, t) ==
    LET user == find_user_by_email(U, email) IN
    IF user = {}
    THEN Response(404, "User not found", NoBody)
    ELSE IF ~verify_password(password, One(user).hashedPassword)
    THEN Response(401, "Incorrect email or password", NoBody)
    ELSE IF ~One(user).isActive
    THEN Response(401, "User account is disabled", NoBody)
    ELSE Response(200, "",
            <<Token(create_access_token(One(user).email,
                                        ACCESS_TOKEN_EXPIRE_MINUTES, t))>>)

login_response_no_active_check(U, email, password, t) ==
    LET user == find_user_by_email(U, email) IN
    IF user = {} \/ ~verify_password(password, One(user).hashedPassword)
    THEN Response(401, "Incorrect email or password", NoBody)
    ELSE Response(200, "",
            <<Token(create_access_token(One(user).email,
                                        ACCESS_TOKEN_EXPIRE_MINUTES, t))>>)

login_response_no_password_check(U, email, password, t) ==
    LET user == find_user_by_email(U, email) IN
    IF user = {}
    THEN Response(401, "Incorrect email or password", NoBody)
    ELSE IF ~One(user).isActive
    THEN Response(401, "User account is disabled", NoBody)
    ELSE Response(200, "",
            <<Token(create_access_token(One(user).email,
                                        ACCESS_TOKEN_EXPIRE_MINUTES, t))>>)

login_response_domain_checked(U, email, password, t) ==
    LET user == find_user_by_email(U, email) IN
    IF ~validate_email_domain(email)
    THEN Response(401, "Incorrect email or password", NoBody)
    ELSE IF user = {} \/ ~verify_password(password, One(user).hashedPassword)
    THEN Response(401, "Incorrect email or password", NoBody)
    ELSE IF ~One(user).isActive
    THEN Response(401, "User account is disabled", NoBody)
    ELSE Response(200, "",
            <<Token(create_access_token(One(user).email,
                                        ACCESS_TOKEN_EXPIRE_MINUTES, t))>>)

login_response(U, email, password, t) ==
    LET user == find_user_by_email(U, email) IN
    IF user = {} \/ ~verify_password(password, One(user).hashedPassword)
    THEN Response(401, "Incorrect email or password", NoBody)
    ELSE IF ~One(user).isActive
    THEN Response(401, "User account is disabled", NoBody)
    ELSE Response(200, "",
            <<Token(create_access_token(One(user).email,
                                        ACCESS_TOKEN_EXPIRE_MINUTES, t))>>)

login_user(email, password) ==
    /\ last' = Served("login", NoHeader, NoGate, email, password, 0,
                      login_response(users, email, password, now))
    /\ UNCHANGED <<users, conversations, messages, now, inflight>>


(***************************************************************************)
(* The other routes of auth.py and /protected of main.py, each behind      *)
(* get_current_user.                                                       *)
(***************************************************************************)
get_current_user_info(token) ==
    LET gate == get_current_user(token, users, now) IN
    /\ last' = Served("me", token, gate, NoEmail, <<>>, 0,
                      IF gate.ok THEN Response(200, "", <<gate.user>>)
                      ELSE GateResponse(gate))
    /\ UNCHANGED <<users, conversations, messages, now, inflight>>

logout_user(token) ==
    LET gate == get_current_user(token, users, now) IN
    /\ last' = Served("logout", token, gate, NoEmail, <<>>, 0,
                      IF gate.ok
                      THEN Response(200, "Logged out successfully", NoBody)
                      ELSE GateResponse(gate))
    /\ UNCHANGED <<users, conversations, messages, now, inflight>>

protected_route(token) ==
    LET gate == get_current_user(token, users, now) IN
    /\ last' = Served("protected", token, gate, NoEmail, <<>>, 0,
                      IF gate.ok
                      THEN Response(200, "",
                              <<[message |-> gate.user.email,
                                 user_id |-> gate.user.id,
                                 access_granted |-> TRUE]>>)
                      ELSE GateResponse(gate))
    /\ UNCHANGED <<users, conversations, messages, now, inflight>>

db_user_update_password_drops_row(U, id, hashed_password) ==
    {u \in U : u.id # id}

db_user_update_password_keeps_hash(U, id, hashed_password) == U

db_user_update_password(U, id, hashed_password) ==
    {IF u.id = id THEN [u EXCEPT !.hashedPassword = hashed_password] ELSE u :
        u \in U}

change_password(token, old_password, new_password) ==
    LET gate == get_current_user(token, users, now)
        served(resp) == WithBody(Served("change_password", token, gate, NoEmail,
                                        new_password, 0, resp),
                                 old_password)
    IN
    /\ IF ~gate.ok
       THEN /\ last' = served(GateResponse(gate))
            /\ UNCHANGED users
       ELSE LET user == One(find_user_by_id(users, gate.user.id)) IN
            IF ~verify_password(old_password, user.hashedPassword)
            THEN /\ last' = served(Response(400, "Incorrect current password",
                                            NoBody))
                 /\ UNCHANGED users
            ELSE IF Len(new_password) < 8
            THEN /\ last' = served(Response(400,
                                     "New password must be at least 8 characters long",
                                     NoBody))
                 /\ UNCHANGED users
            ELSE \E salt \in Salts :
                 /\ users' = db_user_update_password(users, gate.user.id,
                                get_password_hash(new_password, salt))
                 /\ last' = served(Response(200, "Password changed successfully",
                                            NoBody))
    /\ UNCHANGED <<conversations, messages, now, inflight>>

(***************************************************************************)
(* The store outside the API: the active flag of an account is cleared by  *)
(* whoever administers the database (no route writes it; login_user reads  *)
(* it), and the clock advances.                                            *)
(***************************************************************************)
deactivate_account(id) ==
    /\ \E u \in users : u.id = id /\ u.isActive
    /\ users' = {IF u.id = id THEN [u EXCEPT !.isActive = FALSE] ELSE u :
                    u \in users}
    /\ last' = Served("deactivate", NoHeader, NoGate, NoEmail, <<>>, 0,
                      Response(0, "", NoBody))
    /\ UNCHANGED <<conversations, messages, now, inflight>>

Tick ==
    /\ now + ClockStep <= MaxTime
    /\ now' = now + ClockStep
    /\ last' = Served("tick", NoHeader, NoGate, NoEmail, <<>>, 0,
                      Response(0, "", NoBody))
    /\ UNCHANGED <<users, conversations, messages, inflight>>

(***************************************************************************)
(* conversation.py.  find_many returns the matching rows in the requested  *)
(* order; rows with equal keys come in any order.                          *)
(***************************************************************************)
Enumerations(S) ==
    {f \in [1..Cardinality(S) -> S] : \A x \in S : \E i \in DOMAIN f : f[i] = x}

find_many_conversations_ascending(C, userId) ==
    {f \in Enumerations({c \in C : c.userId = userId}) :
        \A i, j \in DOMAIN f : i < j => f[i].updatedAt <= f[j].updatedAt}

find_many_conversations(C, userId) ==
    {f \in Enumerations({c \in C : c.userId = userId}) :
        \A i, j \in DOMAIN f : i < j => f[i].updatedAt >= f[j].updatedAt}

find_many_messages(M, conversationId) ==
    {f \in Enumerations({m \in M : m.conversationId = conversationId}) :
        \A i, j \in DOMAIN f : i < j => f[i].createdAt <= f[j].createdAt}

owned_conversation_unchecked(C, conversation_id, current_user) ==
    find_conversation(C, conversation_id)

owned_conversation(C, conversation_id, current_user) ==
    LET conversation == find_conversation(C, conversation_id) IN
    IF conversation = {} \/ One(conversation).userId # current_user.id
    THEN {}
    ELSE conversation

not_found == Response(404, "Conversation not found", NoBody)

db_conversation_create_first_account(C, conversation_data, current_user, t) ==
    [id |-> Cardinality(C) + 1, userId |-> 1,
     title |-> conversation_data.title, createdAt |-> t, updatedAt |-> t]

db_conversation_create(C, conversation_data, current_user, t) ==
    [id |-> Cardinality(C) + 1, userId |-> current_user.id,
     title |-> conversation_data.title, createdAt |-> t, updatedAt |-> t]

create_conversation(token, title) ==
    LET gate == get_current_user(token, users, now) IN
    /\ IF ~gate.ok
       THEN /\ last' = Served("create_conversation", token, gate, NoEmail,
                              <<>>, 0, GateResponse(gate))
            /\ UNCHANGED conversations
       ELSE /\ Cardinality(conversations) < MaxConvs
            /\ LET conversation ==
                       db_conversation_create(conversations, [title |-> title],
                                              gate.user, now)
               IN /\ conversations' = conversations \cup {conversation}
                  /\ last' = Served("create_conversation", token, gate,
                                    NoEmail, <<>>, conversation.id,
                                    Response(201, "", <<conversation>>))
    /\ UNCHANGED <<users, messages, now, inflight>>

get_user_conversations(token) ==
    LET gate == get_current_user(token, users, now) IN
    /\ IF ~gate.ok
       THEN last' = Served("get_user_conversations", token, gate, NoEmail,
                           <<>>, 0, GateResponse(gate))
       ELSE \E found \in find_many_conversations(conversations, gate.user.id) :
               last' = Served("get_user_conversations", token, gate, NoEmail,
                              <<>>, 0, Response(200, "", found))
    /\ UNCHANGED <<users, conversations, messages, now, inflight>>

get_conversation_response_forbidden(C, conversation_id, current_user) ==
    LET conversation == find_conversation(C, conversation_id) IN
    IF conversation = {} THEN not_found
    ELSE IF One(conversation).userId # current_user.id
    THEN Response(403, "Not authorized to access this conversation", NoBody)
    ELSE Response(200, "", <<One(conversation)>>)

get_conversation_response(C, conversation_id, current_user) ==
    LET conversation == owned_conversation(C, conversation_id, current_user) IN
    IF conversation = {} THEN not_found
    ELSE Response(200, "", <<One(conversation)>>)

get_conversation(token, conversation_id) ==
    LET gate == get_current_user(token, users, now) IN
    /\ last' = Served("get_conversation", token, gate, NoEmail, <<>>,
                      conversation_id,
                      IF gate.ok
                      THEN get_conversation_response(conversations,
                                                     conversation_id, gate.user)
                      ELSE GateResponse(gate))
    /\ UNCHANGED <<users, conversations, messages, now, inflight>>

create_message_result_body_id(C, M, conversation_id, message_data, current_user, t) ==
    IF owned_conversation(C, conversation_id, current_user) = {}
    THEN [resp |-> not_found, messages |-> M, conversations |-> C]
    ELSE LET message ==
                 [id |-> Cardinality(M) + 1,
                  content |-> message_data.content,
                  role |-> message_data.role,
                  conversationId |-> message_data.conversationId,
                  userId |-> current_user.id, createdAt |-> t]
         IN [resp |-> Response(201, "", <<message>>),
             messages |-> M \cup {message}, conversations |-> C]

create_message_result_touches_conversation(C, M, conversation_id, message_data, current_user, t) ==
    IF owned_conversation(C, conversation_id, current_user) = {}
    THEN [resp |-> not_found, messages |-> M, conversations |-> C]
    ELSE LET message ==
                 [id |-> Cardinality(M) + 1,
                  content |-> message_data.content,
                  role |-> message_data.role,
                  conversationId |-> conversation_id,
                  userId |-> current_user.id, createdAt |-> t]
         IN [resp |-> Response(201, "", <<message>>),
             messages |-> M \cup {message},
             conversations |->
                 {IF c.id = conversation_id THEN [c EXCEPT !.updatedAt = t]
                  ELSE c : c \in C}]

create_message_result(C, M, conversation_id, message_data, current_user, t) ==
    IF owned_conversation(C, conversation_id, current_user) = {}
    THEN [resp |-> not_found, messages |-> M, conversations |-> C]
    ELSE LET message ==
                 [id |-> Cardinality(M) + 1,
                  content |-> message_data.content,
                  role |-> message_data.role,
                  conversationId |-> conversation_id,
                  userId |-> current_user.id, createdAt |-> t]
         IN [resp |-> Response(201, "", <<message>>),
             messages |-> M \cup {message}, conversations |-> C]

create_message(token, conversation_id, message_data) ==
    LET gate == get_current_user(token, users, now) IN
    /\ IF ~gate.ok
       THEN /\ last' = WithBody(Served("create_message", token, gate, NoEmail,
                                       <<>>, conversation_id,
                                       GateResponse(gate)),
                                message_data)
            /\ UNCHANGED <<messages, conversations>>
       ELSE LET result == create_message_result(conversations, messages,
                             conversation_id, message_data, gate.user, now)
            IN /\ Cardinality(result.messages) <= MaxMsgs
               /\ messages' = result.messages
               /\ conversations' = result.conversations
               /\ last' = WithBody(Served("create_message", token, gate,
                                          NoEmail, <<>>, conversation_id,
                                          result.resp),
                                   message_data)
    /\ UNCHANGED <<users, now, inflight>>

get_conversation_messages_responses(C, M, conversation_id, current_user) ==
    IF owned_conversation(C, conversation_id, current_user) = {}
    THEN {not_found}
    ELSE {Response(200, "", found) :
             found \in find_many_messages(M, conversation_id)}

get_conversation_messages(token, conversation_id) ==
    LET gate == get_current_user(token, users, now) IN
    /\ IF ~gate.ok
       THEN last' = Served("get_conversation_messages", token, gate, NoEmail,
                           <<>>, conversation_id, GateResponse(gate))
       ELSE \E resp \in get_conversation_messages_responses(
                            conversations, messages, conversation_id, gate.user) :
               last' = Served("get_conversation_messages", token, gate,
                              NoEmail, <<>>, conversation_id, resp)
    /\ UNCHANGED <<users, conversations, messages, now, inflight>>


(***************************************************************************)
(* The requests clients send.                                              *)
(***************************************************************************)
Credentials(t) == {NoHeader} \cup BearerTokens(t)

RegisterRequests ==
    [email : {TEST_EMAIL, STUDENT_EMAIL}, password : {TEST_PASSWORD},
     confirmPassword : {TEST_PASSWORD}, firstName : {"Test"},
     lastName : {"User"}]
    \cup
    [email : {GMAIL_EMAIL}, password : {TEST_PASSWORD},
     confirmPassword : {TEST_PASSWORD}, firstName : {"Test"},
     lastName : {"User"}]
    \cup
    {[email |-> TEST_EMAIL, password |-> p, confirmPassword |-> p,
      firstName |-> "Test", lastName |-> "User"] :
        p \in {WEAK_PASSWORD, NODIGIT_PASSWORD, NOUPPER_PASSWORD}}
    \cup
    [email : {TEST_EMAIL}, password : {TEST_PASSWORD},
     confirmPassword : {OTHER_PASSWORD}, firstName : {"Test"},
     lastName : {"User"}]

LoginEmails == {TEST_EMAIL, STUDENT_EMAIL}
LoginPasswords == {TEST_PASSWORD, OTHER_PASSWORD, WRONG_PASSWORD}
OldPasswords == {TEST_PASSWORD, WRONG_PASSWORD}
NewPasswords == {OTHER_PASSWORD, WEAK_PASSWORD}
Titles == {"Test Conversation"}
ConversationIds == 1..(MaxConvs + 1)
MessageRequests ==
    [content : {"hello"}, role : {"user"}, conversationId : {1}]

AuthNext(new_passwords) ==
    \/ \E s \in 1..MaxInflight, req \in RegisterRequests : register_lookup(s, req)
    \/ \E s \in 1..MaxInflight : register_create(s)
    \/ \E email \in LoginEmails, password \in LoginPasswords :
          login_user(email, password)
    \/ \E token \in Credentials(now) : get_current_user_info(token)
    \/ \E token \in Credentials(now) : logout_user(token)
    \/ \E token \in Credentials(now), old \in OldPasswords, new \in new_passwords :
          change_password(token, old, new)
    \/ Tick

AccountNext ==
    \/ AuthNext(NewPasswords)
    \/ \E u \in users : deactivate_account(u.id)

ConversationNext(creds) ==
    \/ \E token \in creds, title \in Titles :
          create_conversation(token, title)
    \/ \E token \in creds : get_user_conversations(token)
    \/ \E token \in creds, id \in ConversationIds :
          get_conversation(token, id)
    \/ \E token \in creds, id \in ConversationIds,
          message_data \in MessageRequests :
          create_message(token, id, message_data)
    \/ \E token \in creds, id \in ConversationIds :
          get_conversation_messages(token, id)

(***************************************************************************)
(* Spec: the account routes under concurrent registration, deactivation    *)
(* and a moving clock.                                                     *)
(***************************************************************************)
Next == AccountNext

Spec == Init /\ [][Next]_vars

(***************************************************************************)
(* AuthSpec: the account routes and the clock, the store being written by  *)
(* the routes only; a password may also be changed to itself.              *)
(***************************************************************************)
AuthSpec == Init /\ [][AuthNext(NewPasswords \cup {TEST_PASSWORD})]_vars

(***************************************************************************)
(* ApiSpec: every route of the API at one instant, the accounts being      *)
(* registered and logged in through the same register and login steps.     *)
(* The password changes that succeed are in Spec; here the new password is *)
(* the one that is too short.                                              *)
(***************************************************************************)
OwnerRequests ==
    [email : {TEST_EMAIL, STUDENT_EMAIL}, password : {TEST_PASSWORD},
     confirmPassword : {TEST_PASSWORD}, firstName : {"Test"},
     lastName : {"User"}]

ApiCredentials ==
    {NoHeader, InvalidToken} \cup
    {create_access_token(sub, ACCESS_TOKEN_EXPIRE_MINUTES, 0) :
        sub \in {TEST_EMAIL, STUDENT_EMAIL}}

ApiNext ==
    \/ \E req \in OwnerRequests : register_lookup(1, req)
    \/ register_create(1)
    \/ \E email \in LoginEmails : login_user(email, TEST_PASSWORD)
    \/ \E token \in ApiCredentials : get_current_user_info(token)
    \/ \E token \in ApiCredentials : logout_user(token)
    \/ \E token \in ApiCredentials : protected_route(token)
    \/ \E token \in ApiCredentials :
          change_password(token, TEST_PASSWORD, WEAK_PASSWORD)
    \/ ConversationNext(ApiCredentials)

ApiSpec == Init /\ [][ApiNext]_vars


(***************************************************************************)
(* ListingSpec and MessageSpec: the conversation routes and the message    *)
(* routes under a moving clock, each request carrying a token signed at    *)
(* the instant it is sent, so that rows differ in their timestamps.  In    *)
(* MessageSpec the requests are those of TEST_EMAIL.                       *)
(***************************************************************************)
HistoryCredentials(t) ==
    {create_access_token(sub, ACCESS_TOKEN_EXPIRE_MINUTES, t) :
        sub \in {TEST_EMAIL, STUDENT_EMAIL}}

HistoryMessages ==
    {[content |-> "hello", role |-> "user", conversationId |-> 1],
     [content |-> "hi there", role |-> "assistant", conversationId |-> 1]}

ListingNext ==
    \/ \E req \in OwnerRequests : register_lookup(1, req)
    \/ register_create(1)
    \/ \E token \in HistoryCredentials(now), title \in Titles :
          create_conversation(token, title)
    \/ \E token \in HistoryCredentials(now) : get_user_conversations(token)
    \/ Tick

ListingSpec == Init /\ [][ListingNext]_vars

OwnerToken(t) == create_access_token(TEST_EMAIL, ACCESS_TOKEN_EXPIRE_MINUTES, t)

RequesterRequests == {req \in OwnerRequests : req.email = TEST_EMAIL}

MessageNext ==
    \/ \E req \in RequesterRequests : register_lookup(1, req)
    \/ register_create(1)
    \/ \E title \in Titles : create_conversation(OwnerToken(now), title)
    \/ \E id \in ConversationIds, message_data \in HistoryMessages :
          create_message(OwnerToken(now), id, message_data)
    \/ \E id \in ConversationIds :
          get_conversation_messages(OwnerToken(now), id)
    \/ Tick

MessageSpec == Init /\ [][MessageNext]_vars


(***************************************************************************)
(* LegacySpec: the store also holds an account registered while its        *)
(* domain was still allowed; register, login, /me and /protected run       *)
(* under a moving clock.                                                   *)
(***************************************************************************)
register_under_revoked_domain ==
    /\ \E salt \in Salts :
          LET created == db_user_create(users,
                            [email |-> GMAIL_EMAIL,
                             hashedPassword |->
                                 get_password_hash(TEST_PASSWORD, salt),
                             firstName |-> "Test", lastName |-> "User"])
          IN /\ ~created.raised
             /\ users' = created.users
    /\ last' = Served("legacy", NoHeader, NoGate, GMAIL_EMAIL, <<>>, 0,
                      Response(0, "", NoBody))
    /\ UNCHANGED <<conversations, messages, now, inflight>>

LegacyRequests ==
    [email : {TEST_EMAIL, GMAIL_EMAIL}, password : {TEST_PASSWORD},
     confirmPassword : {TEST_PASSWORD}, firstName : {"Test"},
     lastName : {"User"}]

LegacyEmails == {TEST_EMAIL, GMAIL_EMAIL}

LegacyCredentials(t) ==
    {create_access_token(sub, ACCESS_TOKEN_EXPIRE_MINUTES, i) :
        sub \in LegacyEmails, i \in Instants(t)}

LegacyNext ==
    \/ register_under_revoked_domain
    \/ \E req \in LegacyRequests : register_lookup(1, req)
    \/ register_create(1)
    \/ \E email \in LegacyEmails, password \in {TEST_PASSWORD, WRONG_PASSWORD} :
          login_user(email, password)
    \/ \E token \in LegacyCredentials(now) : get_current_user_info(token)
    \/ \E token \in LegacyCredentials(now) : protected_route(token)
    \/ Tick

LegacySpec == Init /\ [][LegacyNext]_vars


(***************************************************************************)
(* RoleSpec: one account writes messages of any role into its              *)
(* conversations; role is a str of MessageBase, of which "moderator" is a  *)
(* value outside the three of its comment.                                 *)
(***************************************************************************)
MessageRoles == {"user", "assistant", "system"}

RoleMessages ==
    [content : {"hello"}, role : MessageRoles \cup {"moderator"},
     conversationId : {1}]

RoleNext ==
    \/ \E req \in RequesterRequests : register_lookup(1, req)
    \/ register_create(1)
    \/ \E title \in Titles : create_conversation(OwnerToken(now), title)
    \/ \E id \in ConversationIds, message_data \in RoleMessages :
          create_message(OwnerToken(now), id, message_data)
    \/ \E id \in ConversationIds :
          get_conversation_messages(OwnerToken(now), id)

RoleSpec == Init /\ [][RoleNext]_vars


(***************************************************************************)
(* ActivitySpec: the conversation and message routes of one requester      *)
(* under a moving clock, so that a row touched after its creation would    *)
(* show in its updatedAt.                                                  *)
(***************************************************************************)
ActivityNext ==
    \/ \E req \in RequesterRequests : register_lookup(1, req)
    \/ register_create(1)
    \/ \E title \in Titles : create_conversation(OwnerToken(now), title)
    \/ get_user_conversations(OwnerToken(now))
    \/ \E id \in ConversationIds : get_conversation(OwnerToken(now), id)
    \/ \E id \in ConversationIds, message_data \in MessageRequests :
          create_message(OwnerToken(now), id, message_data)
    \/ \E id \in ConversationIds :
          get_conversation_messages(OwnerToken(now), id)
    \/ Tick

ActivitySpec == Init /\ [][ActivityNext]_vars


(***************************************************************************)
(* Properties.                                                             *)
(***************************************************************************)
GatedOps ==
    {"me", "logout", "protected", "change_password", "create_conversation",
     "get_user_conversations", "get_conversation", "create_message",
     "get_conversation_messages"}

OwnerCheckedOps ==
    {"get_conversation", "create_message", "get_conversation_messages"}

Succeeded == last.status \in {200, 201}

(* C1: a get_conversation, create_message or get_conversation_messages     *)
(* request that succeeds was made by the account that owns the addressed   *)
(* conversation, and everything it returns belongs to that conversation.   *)
C1_OwnerOnlyAccess ==
    (last.op \in OwnerCheckedOps /\ Succeeded) =>
        /\ last.authed
        /\ \E u \in users :
              u.id = last.uid /\ u.email = verify_token(last.tok, now)
        /\ \E c \in conversations : c.id = last.cid /\ c.userId = last.uid
        /\ \A i \in DOMAIN last.body :
              IF last.op = "get_conversation"
              THEN last.body[i].id = last.cid /\ last.body[i].userId = last.uid
              ELSE last.body[i].conversationId = last.cid

C1_Witness ==
    /\ last.op = "get_conversation_messages"
    /\ Succeeded
    /\ Len(last.body) >= 1
    /\ \E c \in conversations : c.userId # last.uid

(* The store as one account owns it: its conversations and their messages. *)
OwnStore(u) ==
    [conversations |-> {c \in conversations : c.userId = u.id},
     messages |-> {m \in messages :
                     \E c \in conversations :
                        c.id = m.conversationId /\ c.userId = u.id}]

(* C2: to an authenticated account, get_conversation, create_message and   *)
(* get_conversation_messages answer the same in the store and in the store *)
(* without the conversations of other accounts; for a conversation of      *)
(* another account the answer is 404 "Conversation not found".             *)
C2_NotFoundHidesOwnership ==
    \A u \in users, id \in ConversationIds, message_data \in MessageRequests :
        LET me == UserResponse(u)
            own == OwnStore(u)
            foreign == \E c \in conversations : c.id = id /\ c.userId # u.id
        IN /\ get_conversation_response(conversations, id, me)
                 = get_conversation_response(own.conversations, id, me)
           /\ get_conversation_messages_responses(conversations, messages, id, me)
                 = get_conversation_messages_responses(own.conversations,
                                                       own.messages, id, me)
           /\ create_message_result(conversations, messages, id,
                                    message_data, me, now).resp
                 = create_message_result(own.conversations, messages, id,
                                         message_data, me, now).resp
           /\ foreign =>
                 /\ get_conversation_response(conversations, id, me) = not_found
                 /\ get_conversation_messages_responses(conversations, messages,
                                                        id, me) = {not_found}
                 /\ create_message_result(conversations, messages, id,
                                          message_data, me, now)
                       = [resp |-> not_found, messages |-> messages,
                          conversations |-> conversations]

C2_Witness ==
    /\ last.op \in OwnerCheckedOps
    /\ last.authed
    /\ last.status = 404
    /\ \E c \in conversations : c.id = last.cid /\ c.userId # last.uid

(* C3: a request that passes get_current_user carries a token whose        *)
(* subject is, at that time, an account of the store that is active.       *)
C3_GateRejectsAbsentOrInactive ==
    (last.op \in GatedOps /\ last.authed) =>
        \E u \in users : u.email = last.tok.sub /\ u.isActive

(* C4: no two accounts have the same email, whatever the interleaving of   *)
(* the lookups and inserts of concurrent register requests.                *)
C4_EmailUnique ==
    \A u1, u2 \in users : u1.email = u2.email => u1 = u2

C4_Witness ==
    /\ last.op = "register"
    /\ last.status = 500
    /\ \E u \in users : u.email = last.email

(* C5: a register request refused because its email is already held is     *)
(* answered 400 "Email already registered", also when the two              *)
(* registrations overlapped.                                               *)
C5_DuplicateIs400 ==
    (last.op = "register" /\ last.status \notin {201, 422}) =>
        /\ last.status = 400
        /\ last.detail = "Email already registered"

(* C6: every rejection by get_current_user of a request that carries a     *)
(* bearer token is 401 "Could not validate credentials" with no body,      *)
(* whatever made the token unusable.                                       *)
C6_GenericRejection ==
    /\ (last.op \in GatedOps /\ last.tok # NoHeader /\ ~last.authed) =>
          /\ last.status = 401
          /\ last.detail = "Could not validate credentials"
          /\ last.body = NoBody
    /\ \A token \in BearerTokens(now) :
          LET gate == get_current_user(token, users, now) IN
          ~gate.ok => gate = credentials_exception

C6_Witness ==
    /\ last.op \in GatedOps
    /\ ~last.authed
    /\ last.tok.sig = "good"
    /\ last.tok.sub # NoEmail
    /\ now < last.tok.exp
    /\ find_user_by_email(users, last.tok.sub) = {}
    /\ users # {}

(* C7: a request to a protected route without a credential, or with a      *)
(* token that does not verify, is answered 403, respectively 401, with no  *)
(* body, and the step leaves the store unchanged.                          *)
C7_Step ==
    (last'.op \in GatedOps /\ verify_token(last'.tok, now') = NoEmail) =>
        /\ last'.status = IF last'.tok = NoHeader THEN 403 ELSE 401
        /\ last'.body = NoBody
        /\ ~last'.authed
        /\ UNCHANGED <<users, conversations, messages>>

C7_UnauthenticatedRejected == [][C7_Step]_vars

C7_Witness ==
    /\ last.op = "create_message"
    /\ last.tok = InvalidToken
    /\ last.status = 401
    /\ \E c \in conversations : c.id = last.cid

(* C8: login answers 401 "Incorrect email or password" both when the       *)
(* email has no account and when the password does not verify, the same    *)
(* answer as in the store without that account.                            *)
C8_LoginGeneric ==
    \A email \in LoginEmails, password \in LoginPasswords :
        LET user == find_user_by_email(users, email) IN
        (user = {} \/ ~verify_password(password, One(user).hashedPassword)) =>
            /\ login_response(users, email, password, now)
                  = Response(401, "Incorrect email or password", NoBody)
            /\ login_response(users, email, password, now)
                  = login_response(users \ user, email, password, now)

C8_Witness ==
    /\ last.op = "login"
    /\ last.status = 401
    /\ \E u \in users :
          u.email = last.email /\ ~verify_password(last.password, u.hashedPassword)
    /\ \E e \in LoginEmails : find_user_by_email(users, e) = {}

(* C9: login issues no token for an inactive account: with the right       *)
(* password the answer is "User account is disabled", with a wrong one     *)
(* the generic "Incorrect email or password".                              *)
C9_InactiveNoToken ==
    \A u \in users :
        (last.op = "login" /\ last.email = u.email /\ ~u.isActive) =>
            /\ last.status = 401
            /\ last.body = NoBody
            /\ last.detail =
                  IF verify_password(last.password, u.hashedPassword)
                  THEN "User account is disabled"
                  ELSE "Incorrect email or password"

C9_Witness ==
    /\ last.op = "login"
    /\ last.detail = "User account is disabled"

(* C10: a successful login returns a bearer token whose subject is the     *)
(* account's email, with expiresIn the configured minutes times 60, and    *)
(* get_current_user resolves that token at once to that account.           *)
C10_LoginTokenResolves ==
    (last.op = "login" /\ last.status = 200) =>
        LET token == last.body[1]
            gate == get_current_user(token.accessToken, users, now)
        IN /\ token.accessToken.sub = last.email
           /\ token.tokenType = "bearer"
           /\ token.expiresIn = ACCESS_TOKEN_EXPIRE_MINUTES * 60
           /\ gate.ok
           /\ \E u \in users :
                 /\ u.email = last.email
                 /\ u.isActive
                 /\ gate.user = UserResponse(u)
                 /\ gate.user.firstName = "Test"
                 /\ gate.user.lastName = "User"

C10_Witness ==
    /\ last.op = "login"
    /\ last.status = 200
    /\ now > 0

(* C11: get_current_user accepts a token only while the clock is strictly  *)
(* before the token's expiry; at or after the expiry every request that    *)
(* carries it is rejected, and a token signed with ttl 0 is never accepted.*)
C11_ExpiredRejected ==
    /\ (last.op \in GatedOps /\ last.authed) => now < last.tok.exp
    /\ \A token \in BearerTokens(now) :
          now >= token.exp => ~get_current_user(token, users, now).ok
    /\ \A u \in users :
          ~get_current_user(create_access_token(u.email, 0, now), users, now).ok

C11_Witness ==
    /\ last.op \in GatedOps
    /\ ~last.authed
    /\ last.tok.sig = "good"
    /\ now = last.tok.exp
    /\ \E u \in users : u.email = last.tok.sub

(* C12: a step that leaves the clock alone (logout and change-password     *)
(* among them) never makes get_current_user reject a token it accepted     *)
(* before the step.                                                        *)
C12_Step ==
    (now' = now) =>
        \/ users' = users
        \/ \A token \in BearerTokens(now) :
              get_current_user(token, users, now).ok
                  => get_current_user(token, users', now').ok

C12_TokenSurvives == [][C12_Step]_vars

C12_Witness ==
    /\ last.op = "change_password"
    /\ last.status = 200
    /\ get_current_user(last.tok, users, now).ok

Passwords ==
    {TEST_PASSWORD, OTHER_PASSWORD, WEAK_PASSWORD, WRONG_PASSWORD,
     NODIGIT_PASSWORD, NOUPPER_PASSWORD}

LoginSucceeds(U, email, password, t) ==
    login_response(U, email, password, t).status = 200

(* C13: right after a successful register(email, P), login(email, P)       *)
(* succeeds and login(email, Q) fails for every other Q, and no step other *)
(* than a successful change-password of that account changes which         *)
(* passwords log it in.                                                    *)
C13_Step ==
    /\ (last'.op = "register" /\ last'.status = 201) =>
          \A password \in Passwords :
              LoginSucceeds(users', last'.email, password, now')
                  <=> password = last'.password
    /\ \/ users' = users
       \/ \A u \in users :
             \/ /\ last'.op = "change_password"
                /\ last'.status = 200
                /\ last'.uid = u.id
             \/ \A password \in Passwords :
                   LoginSucceeds(users, u.email, password, now)
                       <=> LoginSucceeds(users', u.email, password, now')

C13_RegisteredPasswordLogsIn == [][C13_Step]_vars

C13_Witness ==
    /\ last.op = "login"
    /\ last.status = 401
    /\ last.password = OTHER_PASSWORD
    /\ now > 0
    /\ LoginSucceeds(users, last.email, TEST_PASSWORD, now)

RegisterOps == {"register", "register_lookup"}

HasDigit(password) == \E i \in DOMAIN password : password[i] \in Digits

HasUppercase(password) == \E i \in DOMAIN password : password[i] \in Uppers

RulesHold(email, password, confirmPassword) ==
    /\ EndsWith(email, ALLOWED_DOMAIN)
    /\ Len(password) >= 8
    /\ HasDigit(password)
    /\ HasUppercase(password)
    /\ confirmPassword = password

(* C14: a register request that breaks a validation rule (domain, length,  *)
(* digit, uppercase, confirmation) is answered 422 by a step that leaves   *)
(* the accounts unchanged and starts no lookup or insert.                  *)
C14_Step ==
    (/\ last'.op \in RegisterOps
     /\ ~RulesHold(last'.email, last'.password, last'.req)) =>
        /\ last'.status = 422
        /\ users' = users
        /\ inflight' = inflight

C14_InvalidRegisterNoStore == [][C14_Step]_vars

C14_Witness ==
    /\ last.op = "register"
    /\ last.status = 422
    /\ last.req # last.password
    /\ users # {}

(* C15: register answers 201 exactly when the domain is allowed, the       *)
(* password has 8 characters, a digit and an uppercase letter, the         *)
(* confirmation equals it and no account holds the email when the handler  *)
(* inserts; it then adds one active account with that email, and in every  *)
(* other case adds none.                                                   *)
C15_Step ==
    /\ last'.op = "register" =>
          /\ last'.status = 201 <=>
                /\ RulesHold(last'.email, last'.password, last'.req)
                /\ find_user_by_email(users, last'.email) = {}
          /\ IF last'.status = 201
             THEN \E u \in users' :
                     /\ u \notin users
                     /\ users' = users \cup {u}
                     /\ u.email = last'.email
                     /\ u.isActive
             ELSE users' = users
    /\ last'.op # "register" => Cardinality(users') = Cardinality(users)

C15_RegisterIff == [][C15_Step]_vars

C15_Witness ==
    /\ last.op = "register"
    /\ last.status = 201
    /\ Cardinality(users) = 2

(***************************************************************************)
(* The outcome of a change-password step of an authenticated account:      *)
(* success exactly when old_password verifies against the stored hash and  *)
(* new_password has 8 characters, after success login with new_password    *)
(* succeeds and login with each password of must_fail fails, and a refusal *)
(* is a 400 that leaves the accounts as they were.                         *)
(***************************************************************************)
ChangePasswordOutcome(must_fail(_, _)) ==
    (last'.op = "change_password" /\ last'.authed) =>
        LET user == One(find_user_by_id(users, last'.uid))
            old_password == last'.req
            new_password == last'.password
        IN
        /\ last'.status = 200 <=>
              /\ verify_password(old_password, user.hashedPassword)
              /\ Len(new_password) >= 8
        /\ last'.status = 200 =>
              /\ LoginSucceeds(users', user.email, new_password, now')
              /\ \A password \in must_fail(old_password, new_password) :
                    ~LoginSucceeds(users', user.email, password, now')
        /\ last'.status # 200 =>
              /\ last'.status = 400
              /\ users' = users

OldPasswordOnly(old_password, new_password) == {old_password}

AllButNew(old_password, new_password) == Passwords \ {new_password}

C16_Original == [][ChangePasswordOutcome(OldPasswordOnly)]_vars

(* C16: change_password by an authenticated account succeeds exactly when  *)
(* old_password verifies against the stored hash and new_password has 8    *)
(* characters; after success login with new_password succeeds and login    *)
(* with any other password fails, so the old password fails unless it is   *)
(* the new one; a refusal is a 400 and leaves the stored credential.       *)
C16_ChangePassword == [][ChangePasswordOutcome(AllButNew)]_vars

C16_Witness ==
    /\ last.op = "change_password"
    /\ last.status = 200
    /\ last.req # last.password
    /\ \E u \in users :
          /\ u.id = last.uid
          /\ LoginSucceeds(users, u.email, last.password, now)
          /\ ~LoginSucceeds(users, u.email, last.req, now)

(* C17: get_user_conversations by an authenticated account answers 200    *)
(* with exactly the conversations whose userId is that account's id, each  *)
(* once, none of another account, in non-increasing updatedAt.             *)
C17_OwnConversationsListed ==
    (last.op = "get_user_conversations" /\ last.authed) =>
        LET own == {c \in conversations : c.userId = last.uid} IN
        /\ last.status = 200
        /\ Len(last.body) = Cardinality(own)
        /\ {last.body[i] : i \in DOMAIN last.body} = own
        /\ \A i, j \in DOMAIN last.body :
              i < j => last.body[i].updatedAt >= last.body[j].updatedAt

C17_Witness ==
    /\ last.op = "get_user_conversations"
    /\ last.status = 200
    /\ Len(last.body) = 2
    /\ last.body[1].updatedAt > last.body[2].updatedAt
    /\ Cardinality(users) = 2

(* C18: create_message on a conversation the requester owns answers 201    *)
(* and adds one message with the submitted content and role, the addressed *)
(* conversation and the requester's id; no step removes a message; and     *)
(* get_conversation_messages by the owner returns exactly the messages of  *)
(* that conversation, each once, in non-decreasing createdAt.              *)
C18_Step ==
    /\ messages \subseteq messages'
    /\ (/\ last'.op = "create_message"
        /\ last'.authed
        /\ \E c \in conversations : c.id = last'.cid /\ c.userId = last'.uid) =>
          /\ last'.status = 201
          /\ \E m \in messages' :
                /\ m \notin messages
                /\ messages' = messages \cup {m}
                /\ m.content = last'.req.content
                /\ m.role = last'.req.role
                /\ m.conversationId = last'.cid
                /\ m.userId = last'.uid
                /\ last'.body = <<m>>
    /\ (/\ last'.op = "get_conversation_messages"
        /\ last'.authed
        /\ \E c \in conversations : c.id = last'.cid /\ c.userId = last'.uid) =>
          LET of_conversation ==
                  {m \in messages' : m.conversationId = last'.cid}
              body == last'.body
          IN
          /\ last'.status = 200
          /\ Len(body) = Cardinality(of_conversation)
          /\ {body[i] : i \in DOMAIN body} = of_conversation
          /\ \A i, j \in DOMAIN body :
                i < j => body[i].createdAt <= body[j].createdAt

C18_MessagePersistedAndListed == [][C18_Step]_vars

C18_Witness ==
    /\ last.op = "get_conversation_messages"
    /\ last.status = 200
    /\ last.cid = 2
    /\ Len(last.body) = 2
    /\ last.body[1].createdAt < last.body[2].createdAt
    /\ last.body[1].role # last.body[2].role
    /\ last.body[2].userId = last.uid

CredentialFields ==
    {"hashedPassword", "password", "confirmPassword", "old_password",
     "new_password"}

InAllowList(email, allowed_domains) ==
    \E domain \in allowed_domains : EndsWith(email, domain)

(* C20: under every value of settings.ALLOWED_DOMAINS a register request   *)
(* whose password and confirmation are valid passes validation exactly     *)
(* when its email ends with one of the listed domains.                     *)
C20_DomainFollowsAllowList ==
    \A allowed_domains \in ALLOWED_DOMAINS_settings :
        (/\ last.op \in RegisterOps
         /\ validate_password_strength(last.password)
         /\ passwords_match(last.req, last.password)) =>
            (last.status # 422 <=> InAllowList(last.email, allowed_domains))

(* C21: every message refers to an existing conversation, and its userId   *)
(* is the userId of that conversation.                                     *)
C21_AuthorIsOwner ==
    \A m \in messages :
        \E c \in conversations :
            /\ c.id = m.conversationId
            /\ c.userId = m.userId

C21_Witness ==
    /\ Cardinality(conversations) = 2
    /\ \E m1, m2 \in messages :
          /\ m1.userId # m2.userId
          /\ m1.conversationId # m2.conversationId

(* C22: create_conversation by an authenticated requester adds one         *)
(* conversation whose userId is the requester's id, and no step changes    *)
(* the userId of an existing conversation or gives an id a second owner.   *)
C22_Step ==
    /\ (last'.op = "create_conversation" /\ last'.authed) =>
          /\ last'.status = 201
          /\ \E c \in conversations' :
                /\ c \notin conversations
                /\ conversations' = conversations \cup {c}
                /\ c.userId = last'.uid
                /\ c.id = last'.cid
                /\ \A d \in conversations : d.id # c.id
    /\ \A c \in conversations :
          \E d \in conversations' : d.id = c.id /\ d.userId = c.userId
    /\ \A c, d \in conversations' : c.id = d.id => c.userId = d.userId

C22_OneOwnerForLife == [][C22_Step]_vars

C22_Witness ==
    /\ last.op = "create_conversation"
    /\ last.status = 201
    /\ last.uid = 2
    /\ last.body[1].userId = 2
    /\ \E c \in conversations : c.userId = 1

(* C23: an active account stored under an email outside the allowed domain *)
(* logs in with its password, the token of that login passes the gate as   *)
(* that account, and its unexpired tokens are served by the protected      *)
(* routes.                                                                 *)
C23_RevokedDomainStillUsable ==
    /\ \A u \in users :
          (~validate_email_domain(u.email) /\ u.isActive) =>
              \A password \in Passwords :
                  verify_password(password, u.hashedPassword) =>
                      LET resp == login_response(users, u.email, password, now)
                      IN /\ resp.status = 200
                         /\ LET gate == get_current_user(
                                            resp.body[1].accessToken, users, now)
                            IN gate.ok /\ gate.user.id = u.id
    /\ (/\ last.op \in GatedOps
        /\ last.tok.sig = "good"
        /\ now < last.tok.exp
        /\ \E u \in users : u.email = last.tok.sub) =>
          /\ last.authed
          /\ last.status = 200

C23_Witness ==
    /\ last.op = "protected"
    /\ last.status = 200
    /\ ~validate_email_domain(last.tok.sub)
    /\ last.tok.exp > ACCESS_TOKEN_EXPIRE_MINUTES
    /\ Cardinality(users) = 2

GateOnlyOps == {"me", "logout", "protected"}

(* C24: a request to a gated route is answered by the outcome of the gate  *)
(* on its token, and the gate applied again to the same token right after  *)
(* the request gives that same outcome; a request the gate rejects, and a  *)
(* request to a route that only passes the gate, leave accounts,           *)
(* conversations and messages unchanged.                                   *)
C24_Step ==
    last'.op \in GatedOps =>
        LET first == get_current_user(last'.tok, users, now)
            again == get_current_user(last.tok, users, now)'
        IN
        /\ last'.authed = first.ok
        /\ last'.uid = first.user.id
        /\ ~first.ok =>
              /\ last'.status = first.status
              /\ last'.detail = first.detail
        /\ again = first
        /\ (~first.ok \/ last'.op \in GateOnlyOps) =>
              /\ users' = users
              /\ conversations' = conversations
              /\ messages' = messages

C24_GateReadOnlyIdempotent == [][C24_Step]_vars

C24_Witness ==
    /\ last.op = "logout"
    /\ last.status = 200
    /\ get_current_user(last.tok, users, now).ok
    /\ get_current_user(last.tok, users, now).user.id = last.uid
    /\ conversations # {}

(* C25: the role of every stored message is "user", "assistant" or         *)
(* "system".                                                               *)
C25_RolesValid == \A m \in messages : m.role \in MessageRoles

(* C26: create_message succeeds exactly when the requester owns the        *)
(* conversation of the path, whatever the body's conversationId; a message *)
(* it adds is stored under the path's id, and when the body names another  *)
(* conversation that conversation gets no message.                         *)
C26_Step ==
    last'.op = "create_message" =>
        LET path_id == last'.cid
            body_id == last'.req.conversationId
        IN
        /\ last'.status = 201 <=>
              /\ last'.authed
              /\ \E c \in conversations :
                    c.id = path_id /\ c.userId = last'.uid
        /\ \A m \in messages' \ messages : m.conversationId = path_id
        /\ body_id # path_id =>
              {m \in messages' : m.conversationId = body_id}
                  = {m \in messages : m.conversationId = body_id}

C26_PathDecidesConversation == [][C26_Step]_vars

C26_Witness ==
    /\ last.op = "create_message"
    /\ last.status = 201
    /\ last.cid # last.req.conversationId
    /\ \E c \in conversations :
          c.id = last.req.conversationId /\ c.userId # last.uid
    /\ \A m \in messages : m.conversationId # last.req.conversationId

MessageActivityOps ==
    {"create_message", "get_conversation", "get_conversation_messages"}

(* C27: a create_message, get_conversation or get_conversation_messages    *)
(* request leaves every conversation and every account as it was, so the   *)
(* listings of get_user_conversations stay the same; create_message adds   *)
(* one message when it answers 201 and nothing otherwise, and the two      *)
(* reads add nothing.                                                      *)
C27_Step ==
    last'.op \in MessageActivityOps =>
        /\ conversations' = conversations
        /\ users' = users
        /\ \A u \in users :
              find_many_conversations(conversations', u.id)
                  = find_many_conversations(conversations, u.id)
        /\ IF last'.op = "create_message" /\ last'.status = 201
           THEN /\ messages \subseteq messages'
                /\ Cardinality(messages') = Cardinality(messages) + 1
           ELSE messages' = messages

C27_MessageActivityFrame == [][C27_Step]_vars

C27_Witness ==
    /\ last.op = "create_message"
    /\ last.status = 201
    /\ Cardinality(conversations) = 2
    /\ \E c \in conversations :
          /\ c.id = last.cid
          /\ c.updatedAt < now
          /\ \E d \in conversations : d.updatedAt > c.updatedAt

====
